---------------------------- MODULE Spec2Model ----------------------------
(***************************************************************************)
(* A model of gwm, the GitHub workflow manager: the manifest loader        *)
(* (load_workflows), the repository scanner (determine_language,           *)
(* find_existing_workflows, find_repositories), the matcher                *)
(* (determine_operations) and the put command (cmd_put).                   *)
(*                                                                         *)
(* Paths are tuples of path components.  The manifest's directory is the   *)
(* one component "workflows_dir"; the workspace entries are named by their *)
(* one component below the base directory.  The manifest's directory is    *)
(* taken to lie outside every repository's .github/workflows directory.    *)
(***************************************************************************)
EXTENDS Naturals, Sequences, FiniteSets, TLC

VARIABLES
    pc,                      \* position of the running command
    manifest,                \* the parsed manifest: entries in document order
    srcFiles,                \* names that are regular files beside the manifest
    workflows,               \* load_workflows: the list of workflows
    workflows_per_language,  \* load_workflows: the index, in insertion order
    dir_files,               \* determine_language: suffixes in rglob order
    detected_languages,      \* determine_language: its result
    base_dir,                \* entries of the base directory in iterdir order
    ignore,                  \* names on the ignore list
    repos,                   \* find_repositories: its result
    operations,              \* determine_operations: its result
    emitted,                 \* which loop iteration appended each operation
    dry_run,                 \* args.dry_run
    fs,                      \* per workspace entry: its .github/workflows
    fs0,                     \* fs as it was before the command ran
    attempted                \* number of operations cmd_put has begun

vars == <<pc, manifest, srcFiles, workflows, workflows_per_language, dir_files,
          detected_languages, base_dir, ignore, repos, operations, emitted,
          dry_run, fs, fs0, attempted>>

-----------------------------------------------------------------------------
(* Bounds of the model. *)

MaxEntries == 2

MaxFiles == 6

MaxDirEntries == 3

MaxOpsEntries == 2

MaxRepos == 2

MaxPutEntries == 2

-----------------------------------------------------------------------------
(* Program constants: gwm.py, lines 11-25. *)

LanguageTags == {"python", "c++", "markdown", "rst", "lua"}

LANGUAGES ==
    [lang \in LanguageTags |->
        CASE lang = "python"   -> {".py"}
          [] lang = "c++"      -> {".cpp", ".hpp", ".hxx"}
          [] lang = "markdown" -> {".md", ".markdown"}
          [] lang = "rst"      -> {".rst"}
          [] lang = "lua"      -> {".lua"}]

\* dict order of LANGUAGES
LanguageOrder == <<"python", "c++", "markdown", "rst", "lua">>

WORKFLOW_PATH == <<".github", "workflows">>

WILDCARD == "*"

-----------------------------------------------------------------------------
(* Values of a manifest entry's body.  A key of the table is absent, holds *)
(* one string, or holds a list of strings.                                 *)

NoKey == [k |-> "absent", v |-> <<>>]

Scalar(x) == [k |-> "scalar", v |-> <<x>>]

List(s) == [k |-> "list", v |-> s]

\* as_list: x itself when x is a list, else the one-element list [x]
as_list(x) ==
    IF x.k # "list" THEN <<x.v[1]>> ELSE x.v

-----------------------------------------------------------------------------
(* Workflow and load_workflows. *)

ParentDir == <<"workflows_dir">>

Workflow(name, parent_dir, files, languages) ==
    [name |-> name, parent_dir |-> parent_dir, files |-> files,
     languages |-> languages]

\* (parent_dir / file).is_file()
SrcIsFile(wf, file, existing) ==
    wf.parent_dir = ParentDir /\ file \in existing

\* Workflow.validate: TRUE when it returns, FALSE when it raises
\* FileNotFoundError
validate(wf, existing) ==
    \A i \in 1..Len(wf.files) : SrcIsFile(wf, wf.files[i], existing)

\* position of lang among the keys of the index, 0 when it is no key
KeyPos(wpl, lang) ==
    IF \E i \in 1..Len(wpl) : wpl[i].lang = lang
    THEN CHOOSE i \in 1..Len(wpl) : wpl[i].lang = lang
    ELSE 0

\* a bucket that takes a new workflow at its front
BucketPrepend(wpl, lang, wf) ==
    IF KeyPos(wpl, lang) = 0
    THEN Append(wpl, [lang |-> lang, wfs |-> <<wf>>])
    ELSE [wpl EXCEPT ![KeyPos(wpl, lang)].wfs = <<wf>> \o @]

\* workflows_per_language[lang].append(wf) on a defaultdict(list)
BucketAppend(wpl, lang, wf) ==
    IF KeyPos(wpl, lang) = 0
    THEN Append(wpl, [lang |-> lang, wfs |-> <<wf>>])
    ELSE [wpl EXCEPT ![KeyPos(wpl, lang)].wfs = Append(@, wf)]

\* for lang in info["language"]: workflows_per_language[lang].append(wf)
RECURSIVE AppendPerLanguage(_, _, _, _)
AppendPerLanguage(wpl, langs, i, wf) ==
    IF i > Len(langs) THEN wpl
    ELSE AppendPerLanguage(BucketAppend(wpl, langs[i], wf), langs, i + 1, wf)

\* the default of the language key: lines 102-103
LanguageOrDefault(info) ==
    IF info.language = NoKey THEN List(<<WILDCARD>>) ELSE info.language

\* the loop of load_workflows over manifest.items(), from entry i on.
\* acc.raised is the exception that left the function, "" when none did.
RECURSIVE load_loop(_, _, _, _)
load_loop(entries, existing, i, acc) ==
    IF i > Len(entries) THEN acc
    ELSE
      LET info      == entries[i]
          languages == as_list(LanguageOrDefault(info))
      IN  IF info.file = NoKey
          THEN [acc EXCEPT !.raised = "KeyError"]      \* info["file"], line 107
          ELSE
            LET files == as_list(info.file)
                wf    == Workflow(info.name, ParentDir, files, languages)
            IN  IF ~validate(wf, existing)
                THEN load_loop(entries, existing, i + 1, acc)   \* continue
                ELSE load_loop(entries, existing, i + 1,
                       [acc EXCEPT
                          !.workflows = Append(@, wf),
                          !.workflows_per_language =
                              AppendPerLanguage(@, languages, 1, wf)])

load_workflows(entries, existing) ==
    load_loop(entries, existing, 1,
              [workflows |-> <<>>, workflows_per_language |-> <<>>,
               raised |-> ""])

-----------------------------------------------------------------------------
(* Inputs of the loader. *)

EntryNames == <<"python_flake8", "git_fixup", "doesnotexist", "docs">>

FileNames == {"git.yml", "flake8.yml", "flake8-problem-matcher.json"}

FileValues ==
    {NoKey, Scalar("git.yml"), List(<<>>),
     List(<<"flake8.yml", "flake8-problem-matcher.json">>)}

LanguageValues ==
    {NoKey, Scalar("python"), List(<<"python", "c++">>), List(<<"c++">>)}

\* the manifests of at most n entries with bodies drawn from the two sets
Manifests(files, languages, n) ==
    UNION { { [i \in 1..k |->
                 [name |-> EntryNames[i], file |-> b[i][1],
                  language |-> b[i][2]]] :
              b \in [1..k -> files \X languages] } : k \in 0..n }

-----------------------------------------------------------------------------
(* The loader alone: load_workflows on every manifest. *)

InitLoad ==
    /\ pc = "start"
    /\ manifest \in Manifests(FileValues, LanguageValues, MaxEntries)
    /\ srcFiles \in SUBSET FileNames
    /\ workflows = <<>>
    /\ workflows_per_language = <<>>
    /\ dir_files = <<>>
    /\ detected_languages = <<>>
    /\ base_dir = <<>>
    /\ ignore = {}
    /\ repos = <<>>
    /\ operations = <<>>
    /\ emitted = <<>>
    /\ dry_run = FALSE
    /\ fs = <<>>
    /\ fs0 = <<>>
    /\ attempted = 0

LoadWorkflows ==
    /\ pc = "start"
    /\ LET r == load_workflows(manifest, srcFiles)
       IN  /\ pc' = IF r.raised # "" THEN "raised" ELSE "loaded"
           /\ workflows' = IF r.raised # "" THEN <<>> ELSE r.workflows
           /\ workflows_per_language' =
                  IF r.raised # "" THEN <<>> ELSE r.workflows_per_language
    /\ UNCHANGED <<manifest, srcFiles, dir_files, detected_languages, base_dir,
                   ignore, repos, operations, emitted, dry_run, fs, fs0,
                   attempted>>

NextLoad == LoadWorkflows

SpecLoad == InitLoad /\ [][NextLoad]_vars

-----------------------------------------------------------------------------
(* determine_language.  Its input is the sequence of the suffixes of the   *)
(* regular files under the directory, in the order rglob yields them.      *)

\* del check_langs[lang]
DelKey(check_langs, lang) ==
    SelectSeq(check_langs, LAMBDA l : l # lang)

\* match_file that leaves a detected language in check_langs
RECURSIVE match_file_keep(_, _, _, _)
match_file_keep(suffix, keys, i, st) ==
    IF i > Len(keys) THEN st
    ELSE IF suffix \in LANGUAGES[keys[i]]
         THEN match_file_keep(suffix, keys, i + 1,
                [check_langs |-> st.check_langs,
                 detected_languages |-> Append(st.detected_languages, keys[i])])
         ELSE match_file_keep(suffix, keys, i + 1, st)

\* the inner loop over list(check_langs.keys()), from key i on
RECURSIVE match_file(_, _, _, _)
match_file(suffix, keys, i, st) ==
    IF i > Len(keys) THEN st
    ELSE IF suffix \in LANGUAGES[keys[i]]
         THEN match_file(suffix, keys, i + 1,
                [check_langs |-> DelKey(st.check_langs, keys[i]),
                 detected_languages |-> Append(st.detected_languages, keys[i])])
         ELSE match_file(suffix, keys, i + 1, st)

\* the outer loop over the files, from file i on
RECURSIVE scan_files(_, _, _)
scan_files(files, i, st) ==
    IF i > Len(files) THEN st.detected_languages
    ELSE IF st.check_langs = <<>> THEN st.detected_languages      \* break
         ELSE scan_files(files, i + 1,
                         match_file(files[i], st.check_langs, 1, st))

determine_language(files) ==
    scan_files(files, 1,
               [check_langs |-> LanguageOrder, detected_languages |-> <<>>])

\* suffixes of the files of a directory: recognised ones and one that is not
Suffixes == {".py", ".cpp", ".hpp", ".md", ".rst", ".lua", ".txt"}

SeqsUpTo(S, n) == UNION {[1..k -> S] : k \in 0..n}

InitLang ==
    /\ pc = "start"
    /\ dir_files \in SeqsUpTo(Suffixes, MaxFiles)
    /\ manifest = <<>>
    /\ srcFiles = {}
    /\ workflows = <<>>
    /\ workflows_per_language = <<>>
    /\ detected_languages = <<>>
    /\ base_dir = <<>>
    /\ ignore = {}
    /\ repos = <<>>
    /\ operations = <<>>
    /\ emitted = <<>>
    /\ dry_run = FALSE
    /\ fs = <<>>
    /\ fs0 = <<>>
    /\ attempted = 0

DetermineLanguage ==
    /\ pc = "start"
    /\ detected_languages' = determine_language(dir_files)
    /\ pc' = "done"
    /\ UNCHANGED <<manifest, srcFiles, workflows, workflows_per_language,
                   dir_files, base_dir, ignore, repos, operations, emitted,
                   dry_run, fs, fs0, attempted>>

NextLang == DetermineLanguage

SpecLang == InitLang /\ [][NextLang]_vars

-----------------------------------------------------------------------------
(* The workspace.  An entry of the base directory has a name, is a         *)
(* directory or a plain file, and holds files (their suffixes, in rglob    *)
(* order).  fs[name] is the entry's .github/workflows: dir is "dir" when   *)
(* the directory exists, "absent" when it does not and nothing is in its   *)
(* way, "blocked" when a regular file sits where .github or                *)
(* .github/workflows would be; files maps each name to "absent", to        *)
(* "isdir" (a subdirectory) or to the content of a regular file.           *)

WorkspaceNames == {"empty_pkg", "py_pkg", "cpp_pkg", "py_cpp_pkg"}

DestNames == FileNames \cup {"exists1.yml"}

SuffixOf(name) ==
    CASE name = "git.yml"                     -> ".yml"
      [] name = "flake8.yml"                  -> ".yml"
      [] name = "exists1.yml"                 -> ".yml"
      [] name = "doesnotexist.yml"            -> ".yml"
      [] name = "flake8-problem-matcher.json" -> ".json"

\* the order in which iterdir lists a workflow directory
WfDirListing ==
    <<"exists1.yml", "flake8-problem-matcher.json", "flake8.yml", "git.yml">>

NoWfDir == [dir |-> "absent", files |-> [f \in DestNames |-> "absent"]]

BlockedWfDir == [dir |-> "blocked", files |-> [f \in DestNames |-> "absent"]]

StaleWfDir ==
    [dir |-> "dir",
     files |-> [f \in DestNames |->
                  CASE f = "exists1.yml" -> "stale"
                    [] f = "git.yml"     -> "stale"
                    [] f = "flake8-problem-matcher.json" -> "stale"
                    [] OTHER             -> "absent"]]

SubdirWfDir ==
    [dir |-> "dir",
     files |-> [f \in DestNames |->
                  CASE f = "flake8.yml" -> "isdir"
                    [] OTHER            -> "absent"]]

WfDirStates == {NoWfDir, BlockedWfDir, StaleWfDir, SubdirWfDir}

\* f.is_file() for an entry of the workflow directory
IsRegularFile(content) == content \notin {"absent", "isdir"}

\* find_existing_workflows: [] when the workflow directory is no directory,
\* else the names of its regular files with the suffix .yml
find_existing_workflows(fsx, name) ==
    IF fsx[name].dir = "dir"
    THEN SelectSeq(WfDirListing,
                   LAMBDA f : IsRegularFile(fsx[name].files[f])
                              /\ SuffixOf(f) = ".yml")
    ELSE <<>>

Repository(path, languages, wfs) ==
    [path |-> path, languages |-> languages, workflows |-> wfs]

\* an ignore list that is never consulted
IgnoredNever(name, ign) == FALSE

\* the entry is skipped because it is on the ignore list
Ignored(name, ign) == name \in ign

\* the loop of find_repositories over base_dir.iterdir(), from entry i on
RECURSIVE find_loop(_, _, _, _, _)
find_loop(entries, ign, fsx, i, acc) ==
    IF i > Len(entries) THEN acc
    ELSE IF ~entries[i].is_dir THEN find_loop(entries, ign, fsx, i + 1, acc)
    ELSE IF Ignored(entries[i].name, ign)
         THEN find_loop(entries, ign, fsx, i + 1, acc)          \* continue
    ELSE find_loop(entries, ign, fsx, i + 1,
           Append(acc,
             Repository(<<entries[i].name>>,
                        determine_language(entries[i].files),
                        find_existing_workflows(fsx, entries[i].name))))

find_repositories(entries, ign, fsx) == find_loop(entries, ign, fsx, 1, <<>>)

\* sequences of distinct names
InjSeqs(S, n) ==
    { s \in SeqsUpTo(S, n) : \A i, j \in DOMAIN s : i # j => s[i] # s[j] }

DirFileSeqs == {<<>>, <<".cpp", ".py", ".hpp">>}

\* the base directories of at most n entries
BaseDirs(entryNames, n, fileSeqs) ==
    UNION { { [i \in DOMAIN names |->
                 [name |-> names[i], is_dir |-> k[i][1],
                  files |-> IF k[i][1] THEN k[i][2] ELSE <<>>]] :
              k \in [DOMAIN names ->
                       ({TRUE} \X fileSeqs) \cup {<<FALSE, <<>> >>}] } :
            names \in InjSeqs(entryNames, n) }

\* the workflow directories of a base directory: only a directory has one
FsOf(entries, states) ==
    { f \in [WorkspaceNames -> states \cup {NoWfDir}] :
        \A n \in WorkspaceNames :
           (\E i \in DOMAIN entries : entries[i].name = n /\ entries[i].is_dir)
           \/ f[n] = NoWfDir }

InitScan ==
    /\ pc = "start"
    /\ base_dir \in BaseDirs(WorkspaceNames, MaxDirEntries, DirFileSeqs)
    /\ fs \in FsOf(base_dir, {NoWfDir, BlockedWfDir, StaleWfDir})
    /\ fs0 = fs
    /\ ignore \in SUBSET {"py_pkg", "py_cpp_pkg"}
    /\ manifest = <<>>
    /\ srcFiles = {}
    /\ workflows = <<>>
    /\ workflows_per_language = <<>>
    /\ dir_files = <<>>
    /\ detected_languages = <<>>
    /\ repos = <<>>
    /\ operations = <<>>
    /\ emitted = <<>>
    /\ dry_run = FALSE
    /\ attempted = 0

FindRepositories(from) ==
    /\ pc = from
    /\ repos' = find_repositories(base_dir, ignore, fs)
    /\ pc' = "scanned"
    /\ UNCHANGED <<manifest, srcFiles, workflows, workflows_per_language,
                   dir_files, detected_languages, base_dir, ignore, operations,
                   emitted, dry_run, fs, fs0, attempted>>

NextScan == FindRepositories("start")

SpecScan == InitScan /\ [][NextScan]_vars

-----------------------------------------------------------------------------
(* determine_operations.  Each loop iteration that appends an operation is *)
(* recorded as [repo, lang, wf, wf_file]; the operation is the pair        *)
(* (source, destination) built from it.                                    *)

RECURSIVE Concat(_)
Concat(ss) == IF ss = <<>> THEN <<>> ELSE Head(ss) \o Concat(Tail(ss))

SeqRange(s) == {s[i] : i \in DOMAIN s}

\* a selection that forgets the wildcard tag
LangSelectedNoWildcard(repo, lang) ==
    lang \in SeqRange(repo.languages)

\* a selection that takes every tag of the index
LangSelectedAll(repo, lang) == TRUE

\* lang in repo.languages + ["*"]
LangSelected(repo, lang) ==
    lang \in SeqRange(repo.languages \o <<WILDCARD>>)

\* for wf_file in wf.files
FileIterations(repo, lang, wf) ==
    [i \in 1..Len(wf.files) |->
        [repo |-> repo, lang |-> lang, wf |-> wf, wf_file |-> wf.files[i]]]

\* for wf in workflows_per_language[lang]
WorkflowIterations(repo, bucket) ==
    Concat([j \in 1..Len(bucket.wfs) |->
              FileIterations(repo, bucket.lang, bucket.wfs[j])])

\* for lang in (lang for lang in workflows_per_language if ...)
LanguageIterations(repo, wpl) ==
    Concat([b \in 1..Len(wpl) |->
              IF LangSelected(repo, wpl[b].lang)
              THEN WorkflowIterations(repo, wpl[b])
              ELSE <<>>])

\* for repo in repositories
Iterations(repositories, wpl) ==
    Concat([r \in 1..Len(repositories) |->
              LanguageIterations(repositories[r], wpl)])

\* op = (wf.parent_dir / wf_file, repo.path / _WORKFLOW_PATH / wf_file)
Operation(it) ==
    [src  |-> it.wf.parent_dir \o <<it.wf_file>>,
     dest |-> it.repo.path \o WORKFLOW_PATH \o <<it.wf_file>>]

determine_operations(repositories, wpl) ==
    LET its == Iterations(repositories, wpl)
    IN  [k \in 1..Len(its) |-> Operation(its[k])]

DetermineOperations(from) ==
    /\ pc = from
    /\ operations' = determine_operations(repos, workflows_per_language)
    /\ emitted' = Iterations(repos, workflows_per_language)
    /\ pc' = "planned"
    /\ UNCHANGED <<manifest, srcFiles, workflows, workflows_per_language,
                   dir_files, detected_languages, base_dir, ignore, repos,
                   dry_run, fs, fs0, attempted>>

-----------------------------------------------------------------------------
(* The matcher on loaded manifests and on given repositories. *)

RepoNames == <<"empty_pkg", "py_pkg", "cpp_pkg", "py_cpp_pkg">>

RepoLanguages == {<<>>, <<"python">>, <<"c++">>, <<"c++", "python">>}

OpsFileValues ==
    {Scalar("git.yml"), List(<<>>), List(<<"git.yml", "flake8.yml">>)}

Repositories(n) ==
    UNION { { [i \in 1..k |-> Repository(<<RepoNames[i]>>, l[i], <<>>)] :
              l \in [1..k -> RepoLanguages] } : k \in 0..n }

InitOps ==
    /\ pc = "start"
    /\ manifest \in Manifests(OpsFileValues, LanguageValues, MaxOpsEntries)
    /\ srcFiles = FileNames
    /\ repos \in Repositories(MaxRepos)
    /\ workflows = <<>>
    /\ workflows_per_language = <<>>
    /\ dir_files = <<>>
    /\ detected_languages = <<>>
    /\ base_dir = <<>>
    /\ ignore = {}
    /\ operations = <<>>
    /\ emitted = <<>>
    /\ dry_run = FALSE
    /\ fs = <<>>
    /\ fs0 = <<>>
    /\ attempted = 0

NextOps ==
    \/ LoadWorkflows
    \/ DetermineOperations("loaded")

SpecOps == InitOps /\ [][NextOps]_vars

-----------------------------------------------------------------------------
(* cmd_put.  load_workflows, find_repositories and determine_operations    *)
(* run in this order; then the operations are printed (dry run) or applied *)
(* one per step.  An exception that leaves cmd_put ends it in "raised".    *)

\* the content of a source file: every source file has its own
SrcContent(src) == "bytes of " \o src[Len(src)]

\* the workspace entry and the file name of a destination
DestEntry(dest) == dest[1]

DestFile(dest) == dest[Len(dest)]

\* dest.parent.mkdir(parents=True, exist_ok=True): raises when a regular
\* file is in the way (NotADirectoryError for .github, FileExistsError for
\* .github/workflows), creates the directory when it is missing
Mkdir(fsx, dest) ==
    IF fsx[DestEntry(dest)].dir = "blocked"
    THEN [fs |-> fsx, raised |-> "OSError"]
    ELSE [fs |-> [fsx EXCEPT ![DestEntry(dest)].dir = "dir"], raised |-> ""]

\* a copy that opens the destination for writing and writes nothing
CopyFileEmpty(fsx, src, dest) ==
    IF fsx[DestEntry(dest)].files[DestFile(dest)] = "isdir"
    THEN [fs |-> fsx, raised |-> "IsADirectoryError"]
    ELSE [fs |-> [fsx EXCEPT ![DestEntry(dest)].files[DestFile(dest)] = ""],
          raised |-> ""]

\* shutil.copyfile(src, dest): raises when dest is a directory, else dest
\* holds the bytes of src
CopyFile(fsx, src, dest) ==
    IF fsx[DestEntry(dest)].files[DestFile(dest)] = "isdir"
    THEN [fs |-> fsx, raised |-> "IsADirectoryError"]
    ELSE [fs |-> [fsx EXCEPT ![DestEntry(dest)].files[DestFile(dest)] =
                                 SrcContent(src)],
          raised |-> ""]

\* one iteration of the loop of lines 45-50
ApplyOperation(fsx, op) ==
    LET made == Mkdir(fsx, op.dest)
    IN  IF made.raised # "" THEN made ELSE CopyFile(made.fs, op.src, op.dest)

\* a loop that swallows the exception of an operation and goes on
PutCopySwallow ==
    /\ pc = "planned"
    /\ ~dry_run
    /\ attempted < Len(operations)
    /\ fs' = ApplyOperation(fs, operations[attempted + 1]).fs
    /\ pc' = "planned"
    /\ attempted' = attempted + 1
    /\ UNCHANGED <<manifest, srcFiles, workflows, workflows_per_language,
                   dir_files, detected_languages, base_dir, ignore, repos,
                   operations, emitted, dry_run, fs0>>

PutCopy ==
    /\ pc = "planned"
    /\ ~dry_run
    /\ attempted < Len(operations)
    /\ LET r == ApplyOperation(fs, operations[attempted + 1])
       IN  /\ fs' = r.fs
           /\ pc' = IF r.raised # "" THEN "raised" ELSE "planned"
    /\ attempted' = attempted + 1
    /\ UNCHANGED <<manifest, srcFiles, workflows, workflows_per_language,
                   dir_files, detected_languages, base_dir, ignore, repos,
                   operations, emitted, dry_run, fs0>>

\* a dry run that creates the directory of each destination
RECURSIVE MkdirAll(_, _, _)
MkdirAll(fsx, ops, i) ==
    IF i > Len(ops) THEN fsx ELSE MkdirAll(Mkdir(fsx, ops[i].dest).fs, ops, i + 1)

PutDryRunMkdir ==
    /\ pc = "planned"
    /\ dry_run
    /\ pc' = "done"
    /\ fs' = MkdirAll(fs, operations, 1)
    /\ UNCHANGED <<manifest, srcFiles, workflows, workflows_per_language,
                   dir_files, detected_languages, base_dir, ignore, repos,
                   operations, emitted, dry_run, fs0, attempted>>

\* the dry run prints the operations and touches nothing
PutDryRun ==
    /\ pc = "planned"
    /\ dry_run
    /\ pc' = "done"
    /\ UNCHANGED <<manifest, srcFiles, workflows, workflows_per_language,
                   dir_files, detected_languages, base_dir, ignore, repos,
                   operations, emitted, dry_run, fs, fs0, attempted>>

\* return 0 after the last operation
PutReturn ==
    /\ pc = "planned"
    /\ ~dry_run
    /\ attempted = Len(operations)
    /\ pc' = "done"
    /\ UNCHANGED <<manifest, srcFiles, workflows, workflows_per_language,
                   dir_files, detected_languages, base_dir, ignore, repos,
                   operations, emitted, dry_run, fs, fs0, attempted>>

\* tests/workflows/workflows.toml as test_load_workflows reads it
TestManifest ==
    <<[name |-> "python_flake8",
       file |-> List(<<"flake8.yml", "flake8-problem-matcher.json">>),
       language |-> Scalar("python")],
      [name |-> "git_fixup", file |-> Scalar("git.yml"), language |-> NoKey],
      [name |-> "doesnotexist", file |-> Scalar("doesnotexist.yml"),
       language |-> NoKey]>>

\* two workflows that declare the same file
SharedFileManifest ==
    <<[name |-> "python_flake8", file |-> Scalar("git.yml"),
       language |-> List(<<"python", "c++">>)],
      [name |-> "git_fixup", file |-> List(<<"git.yml", "flake8.yml">>),
       language |-> Scalar("python")]>>

\* an entry without the file key
NoFileManifest ==
    <<[name |-> "git_fixup", file |-> Scalar("git.yml"), language |-> NoKey],
      [name |-> "docs", file |-> NoKey, language |-> Scalar("python")]>>

PutManifests == {TestManifest, SharedFileManifest, NoFileManifest}

PutFileSeqs == {<<>>, <<".py">>}

PutNames == {"empty_pkg", "py_pkg", "cpp_pkg"}

Init ==
    /\ pc = "start"
    /\ manifest \in PutManifests
    /\ srcFiles = FileNames
    /\ base_dir \in BaseDirs(PutNames, MaxPutEntries, PutFileSeqs)
    /\ fs \in FsOf(base_dir, WfDirStates)
    /\ fs0 = fs
    /\ ignore \in {{}, {"py_pkg"}}
    /\ dry_run \in BOOLEAN
    /\ workflows = <<>>
    /\ workflows_per_language = <<>>
    /\ dir_files = <<>>
    /\ detected_languages = <<>>
    /\ repos = <<>>
    /\ operations = <<>>
    /\ emitted = <<>>
    /\ attempted = 0

Next ==
    \/ LoadWorkflows
    \/ FindRepositories("loaded")
    \/ DetermineOperations("scanned")
    \/ PutDryRun
    \/ PutCopy
    \/ PutReturn

Spec == Init /\ [][Next]_vars

-----------------------------------------------------------------------------
(* What the claims speak of. *)

\* the files and tags an entry declares; an entry without the file key
\* declares no file, one without the language key the wildcard tag
DeclaredFiles(info) ==
    IF info.file = NoKey THEN <<>> ELSE as_list(info.file)

DeclaredTags(info) == as_list(LanguageOrDefault(info))

HasMissingFile(info) ==
    \E i \in 1..Len(DeclaredFiles(info)) : DeclaredFiles(info)[i] \notin srcFiles

InList(name) ==
    \E i \in 1..Len(workflows) : workflows[i].name = name

InBucket(name, lang) ==
    \E b \in 1..Len(workflows_per_language) :
        /\ workflows_per_language[b].lang = lang
        /\ \E j \in 1..Len(workflows_per_language[b].wfs) :
              workflows_per_language[b].wfs[j].name = name

InSomeBucket(name) ==
    \E b \in 1..Len(workflows_per_language) :
        InBucket(name, workflows_per_language[b].lang)

DroppedOrLoaded(info) ==
    IF HasMissingFile(info)
    THEN ~InList(info.name) /\ ~InSomeBucket(info.name)
    ELSE /\ InList(info.name)
         /\ \A t \in 1..Len(DeclaredTags(info)) :
               InBucket(info.name, DeclaredTags(info)[t])

NoDuplicates(s) == \A i, j \in DOMAIN s : i # j => s[i] # s[j]

-----------------------------------------------------------------------------
(* Claims about load_workflows, under SpecLoad. *)

\* C1: once load_workflows has ended, every entry with a missing file is in
\* neither the workflow list nor any bucket, and every other entry is in the
\* list and in the bucket of each of its tags.
C1_MissingDroppedOthersLoaded ==
    pc # "start" => \A i \in DOMAIN manifest : DroppedOrLoaded(manifest[i])

\* C1 where load_workflows returns: the same, for the loads that return.
C1_WhenLoadReturns ==
    pc = "loaded" => \A i \in DOMAIN manifest : DroppedOrLoaded(manifest[i])

\* a load that returned, dropped one entry and kept a later one
C1_ReturnedWitness ==
    /\ pc = "loaded"
    /\ \E i, j \in DOMAIN manifest :
          /\ i < j
          /\ HasMissingFile(manifest[i])
          /\ ~HasMissingFile(manifest[j])
          /\ Len(DeclaredFiles(manifest[j])) = 2
          /\ Len(DeclaredTags(manifest[j])) = 2

\* C2: load_workflows never aborts: whatever the entries hold (file and
\* language both optional) it returns, and every entry all of whose files
\* exist is loaded, also one that comes after a bad entry.
C2_LoadNeverAborts ==
    pc # "start" =>
        /\ pc = "loaded"
        /\ \A i \in DOMAIN manifest :
              ~HasMissingFile(manifest[i]) => InList(manifest[i].name)

-----------------------------------------------------------------------------
(* Claims about determine_language, under SpecLang. *)

\* C7: determine_language returns, without duplicates, exactly the tags of
\* the registry that have a listed extension among the files, whatever the
\* order of the files: nothing when no file is recognised.
C7_DetectedExactly ==
    pc = "done" =>
        /\ NoDuplicates(detected_languages)
        /\ SeqRange(detected_languages) =
              { lang \in LanguageTags :
                  \E i \in DOMAIN dir_files : dir_files[i] \in LANGUAGES[lang] }

\* all five tags detected out of registry order, with a file left over
C7_Witness ==
    /\ pc = "done"
    /\ Len(dir_files) = MaxFiles
    /\ Len(detected_languages) = Len(LanguageOrder)
    /\ detected_languages[1] = "lua"
    /\ dir_files[MaxFiles] = ".hpp"

-----------------------------------------------------------------------------
(* Claims about find_repositories, under SpecScan. *)

\* the immediate entries that are directories and not on the ignore list
ExpectedRepos ==
    { base_dir[i].name : i \in { j \in DOMAIN base_dir :
                                   /\ base_dir[j].is_dir
                                   /\ base_dir[j].name \notin ignore } }

\* C6: find_repositories returns exactly one Repository per immediate entry
\* that is a directory and not on the ignore list: no ignored name, no plain
\* file, none missing, none twice.
C6_OnePerDirectory ==
    pc = "scanned" =>
        /\ { repos[k].path : k \in DOMAIN repos } =
              { <<n>> : n \in ExpectedRepos }
        /\ Len(repos) = Cardinality(ExpectedRepos)

\* an ignored directory that holds python, a plain file and a scanned
\* directory side by side
C6_Witness ==
    /\ pc = "scanned"
    /\ Len(repos) = 1
    /\ \E i, j \in DOMAIN base_dir :
          /\ base_dir[i].is_dir
          /\ base_dir[i].name \in ignore
          /\ ".py" \in SeqRange(base_dir[i].files)
          /\ ~base_dir[j].is_dir

-----------------------------------------------------------------------------
(* Claims about determine_operations, under SpecOps. *)

\* dest lies in the .github/workflows directory of repo
InWorkflowDir(dest, repo) ==
    /\ Len(dest) = Len(repo.path) + Len(WORKFLOW_PATH) + 1
    /\ SubSeq(dest, 1, Len(repo.path) + Len(WORKFLOW_PATH)) =
          repo.path \o WORKFLOW_PATH

\* the workflow was loaded from an entry without the language key
WildcardByDefault(wf) ==
    \E i \in DOMAIN manifest :
        manifest[i].name = wf.name /\ manifest[i].language = NoKey

\* op copies a file of wf
CopyOf(op, wf) ==
    \E f \in DOMAIN wf.files : op.src = wf.parent_dir \o <<wf.files[f]>>

ManifestPos(name) ==
    CHOOSE i \in DOMAIN manifest : manifest[i].name = name

\* C3 as stated: every workflow without an explicit language has, for
\* every repository, at least one copy operation into that repository's
\* workflow directory.
C3_WildcardReachesEveryRepo ==
    pc = "planned" =>
        \A w \in DOMAIN workflows : \A r \in DOMAIN repos :
            WildcardByDefault(workflows[w]) =>
                \E k \in DOMAIN operations :
                    /\ CopyOf(operations[k], workflows[w])
                    /\ InWorkflowDir(operations[k].dest, repos[r])

\* C3 as amended: every workflow without an explicit language has, for
\* every repository and for each of its files, a copy operation of that file
\* into that repository's workflow directory; a workflow with an empty file
\* list has none.
C3_WildcardFilesReachEveryRepo ==
    pc = "planned" =>
        \A w \in DOMAIN workflows : \A r \in DOMAIN repos :
            WildcardByDefault(workflows[w]) =>
                /\ \A f \in DOMAIN workflows[w].files :
                      \E k \in DOMAIN operations :
                          operations[k] =
                            [src  |-> workflows[w].parent_dir
                                        \o <<workflows[w].files[f]>>,
                             dest |-> repos[r].path \o WORKFLOW_PATH
                                        \o <<workflows[w].files[f]>>]
                /\ workflows[w].files = <<>> =>
                      \A k \in DOMAIN operations :
                          emitted[k].wf.name # workflows[w].name

\* a wildcard workflow with a file, copied into a repository without any
\* detected language
C3_Witness ==
    /\ pc = "planned"
    /\ \E w \in DOMAIN workflows : \E r \in DOMAIN repos :
          /\ WildcardByDefault(workflows[w])
          /\ workflows[w].files # <<>>
          /\ repos[r].languages = <<>>
          /\ \E k \in DOMAIN operations :
                /\ CopyOf(operations[k], workflows[w])
                /\ InWorkflowDir(operations[k].dest, repos[r])

\* C4: an operation emitted for tag L of a workflow goes into a repository
\* only if L is the wildcard or among the repository's languages; so every
\* file a repository receives belongs to a workflow that has the wildcard
\* tag or a tag the repository has.
C4_OnlyMatchingTags ==
    pc = "planned" =>
        /\ Len(emitted) = Len(operations)
        /\ \A k \in DOMAIN operations :
              /\ operations[k] = Operation(emitted[k])
              /\ InWorkflowDir(operations[k].dest, emitted[k].repo)
              /\ emitted[k].lang \in SeqRange(emitted[k].wf.languages)
              /\ emitted[k].lang # WILDCARD =>
                    emitted[k].lang \in SeqRange(emitted[k].repo.languages)
        /\ \A k \in DOMAIN operations : \A r \in DOMAIN repos :
              InWorkflowDir(operations[k].dest, repos[r]) =>
                  \E w \in DOMAIN workflows :
                      /\ CopyOf(operations[k], workflows[w])
                      /\ \E t \in DOMAIN workflows[w].languages :
                            workflows[w].languages[t]
                               \in SeqRange(repos[r].languages) \cup {WILDCARD}

\* a repository without python receives a file of a python workflow through
\* the workflow's other tag, and another repository receives nothing
C4_Witness ==
    /\ pc = "planned"
    /\ \E k \in DOMAIN operations :
          /\ emitted[k].lang = "c++"
          /\ "python" \in SeqRange(emitted[k].wf.languages)
          /\ "python" \notin SeqRange(emitted[k].repo.languages)
    /\ \E r \in DOMAIN repos :
          \A k \in DOMAIN operations :
              ~InWorkflowDir(operations[k].dest, repos[r])

\* C5 as stated: operations with the same destination are emitted in
\* manifest order of their workflows, so the later-declared workflow writes
\* last.
C5_SameDestInManifestOrder ==
    pc = "planned" =>
        \A i, j \in DOMAIN operations :
            (i < j /\ operations[i].dest = operations[j].dest) =>
                ManifestPos(emitted[i].wf.name) <= ManifestPos(emitted[j].wf.name)

\* C5 as amended: operations with the same destination are emitted grouped
\* by language tag, the tags in the order of their first appearance in the
\* index, and in manifest order of their workflows within one tag.
C5_SameDestInBucketOrder ==
    pc = "planned" =>
        \A i, j \in DOMAIN operations :
            (i < j /\ operations[i].dest = operations[j].dest) =>
                IF emitted[i].lang = emitted[j].lang
                THEN ManifestPos(emitted[i].wf.name)
                        <= ManifestPos(emitted[j].wf.name)
                ELSE KeyPos(workflows_per_language, emitted[i].lang)
                        < KeyPos(workflows_per_language, emitted[j].lang)

\* two workflows write the same destination through the same tag, and a
\* third operation writes it through another tag
C5_Witness ==
    /\ pc = "planned"
    /\ \E i, j, k \in DOMAIN operations :
          /\ i < j /\ j < k
          /\ operations[i].dest = operations[j].dest
          /\ operations[j].dest = operations[k].dest
          /\ emitted[i].lang = emitted[j].lang
          /\ emitted[i].wf.name # emitted[j].wf.name
          /\ emitted[k].lang # emitted[j].lang

-----------------------------------------------------------------------------
(* Claims about cmd_put, under Spec. *)

FileAt(fsx, dest) == fsx[DestEntry(dest)].files[DestFile(dest)]

\* some operation among the first k writes file f of entry n
Written(n, f, k) ==
    \E j \in 1..k :
        DestEntry(operations[j].dest) = n /\ DestFile(operations[j].dest) = f

\* some operation among the first k goes into entry n
Entered(n, k) ==
    \E j \in 1..k : DestEntry(operations[j].dest) = n

\* the first k operations are applied
Applied(k) ==
    \A j \in 1..k :
        /\ fs[DestEntry(operations[j].dest)].dir = "dir"
        /\ FileAt(fs, operations[j].dest) = SrcContent(operations[j].src)

\* no file but the destinations of the first k operations has changed
FilesUntouched(k) ==
    \A n \in WorkspaceNames : \A f \in DestNames :
        ~Written(n, f, k) => fs[n].files[f] = fs0[n].files[f]

\* no directory but those of the first k operations has been created
DirsUntouched(k) ==
    \A n \in WorkspaceNames : ~Entered(n, k) => fs[n].dir = fs0[n].dir

\* C8: after a put without dry run has returned, every destination of the
\* computed list holds the bytes of its source, no other file has been
\* created or changed, and an ignored repository is as it was.
C8_ExactlyTheOperations ==
    (pc = "done" /\ ~dry_run) =>
        /\ operations = determine_operations(repos, workflows_per_language)
        /\ attempted = Len(operations)
        /\ Applied(Len(operations))
        /\ FilesUntouched(Len(operations))
        /\ DirsUntouched(Len(operations))
        /\ \A n \in ignore : fs[n] = fs0[n]

\* a put that overwrote a stale file, created another file and left an
\* ignored python repository with its stale files alone
C8_Witness ==
    /\ pc = "done"
    /\ ~dry_run
    /\ \E k \in DOMAIN operations :
          FileAt(fs0, operations[k].dest) = "stale"
    /\ \E k \in DOMAIN operations :
          FileAt(fs0, operations[k].dest) = "absent"
    /\ \E i \in DOMAIN base_dir :
          /\ base_dir[i].is_dir
          /\ base_dir[i].name \in ignore
          /\ ".py" \in SeqRange(base_dir[i].files)
          /\ fs0[base_dir[i].name] = StaleWfDir

\* C9: a dry run changes nothing: the files and directories are, in every
\* state of the run, those of before.
C9_DryRunTouchesNothing ==
    dry_run => fs = fs0

\* a finished dry run with operations into a directory that does not exist
C9_Witness ==
    /\ pc = "done"
    /\ dry_run
    /\ Len(operations) >= 2
    /\ \E k \in DOMAIN operations :
          fs[DestEntry(operations[k].dest)].dir = "absent"

\* C10: without dry run the operations are applied one at a time in list
\* order; the first that fails ends the run with its exception, the
\* operations before it stay applied and none after it is begun.
C10_AbortOnFirstFailure ==
    ~dry_run =>
        /\ pc = "planned" =>
              /\ Applied(attempted)
              /\ FilesUntouched(attempted)
              /\ DirsUntouched(attempted)
        /\ (pc = "raised" /\ attempted > 0) =>
              /\ ApplyOperation(fs, operations[attempted]).raised # ""
              /\ Applied(attempted - 1)
              /\ FilesUntouched(attempted - 1)
              /\ DirsUntouched(attempted)
        /\ pc = "done" => attempted = Len(operations)

\* a run that applied an operation, failed on a later one and left
\* operations unattempted
C10_Witness ==
    /\ pc = "raised"
    /\ ~dry_run
    /\ attempted >= 2
    /\ attempted < Len(operations)
    /\ fs # fs0

=============================================================================
